---- MODULE Spec2Model ----
(***************************************************************************)
(* Model of app.py: the grounding pipeline of main() (budget-gated search, *)
(* source selection, snippet fetching, provider call with retry/backoff    *)
(* and placeholder fallback, post-processing into the payload).            *)
(*                                                                         *)
(* Strings are sequences of atoms (short pieces of text).  Every string    *)
(* operation of the source (substring test, strip, rstrip, startswith,     *)
(* endswith, the URL regex) is computed on these sequences.                *)
(***************************************************************************)
EXTENDS Integers, Sequences, FiniteSets, TLC

\* ------------------------------------------------------------------ bounds
\* largest value of --max-searches / --max-sources / --retries explored, and
\* the longest list of results one search hands back
MaxSearches == 2
MaxSources == 2
MaxRetries == 1
MaxResults == 2

Min(a, b) == IF a < b THEN a ELSE b
Max(a, b) == IF a > b THEN a ELSE b

\* ----------------------------------------------------------------- strings
Whitespace == {" ", "\n"}
\* characters that end a URL token in extract_urls' regex: \s ) > ]
UrlStop == Whitespace \cup {")", ">", "]"}
TrailPunct == {".", ",", ";", ":", "!", "?"}
Schemes == {"https://", "http://"}
\* atoms made of non-word characters (for \b in extract_mentions)
NonWord == Whitespace \cup UrlStop \cup TrailPunct \cup Schemes \cup {"/", "-", "(", "---"}

\* str.lower() on one atom
LowerAtom(a) ==
    CASE a = "WWW" -> "www"
      [] a = "Acme" -> "acme"
      [] a = "ACME" -> "acme"
      [] OTHER -> a

Lower(s) == [i \in 1..Len(s) |-> LowerAtom(s[i])]

StartsWith(s, p) == Len(p) <= Len(s) /\ SubSeq(s, 1, Len(p)) = p
EndsWith(s, p) == Len(p) <= Len(s) /\ SubSeq(s, Len(s) - Len(p) + 1, Len(s)) = p
\* Python's `p in s` on strings
Contains(s, p) == \E i \in 0..(Len(s) - Len(p)) : SubSeq(s, i + 1, i + Len(p)) = p

RECURSIVE LStripSet(_, _)
LStripSet(s, set) ==
    IF s # <<>> /\ Head(s) \in set THEN LStripSet(Tail(s), set) ELSE s

RECURSIVE RStripSet(_, _)
RStripSet(s, set) ==
    IF s # <<>> /\ s[Len(s)] \in set THEN RStripSet(SubSeq(s, 1, Len(s) - 1), set) ELSE s

\* str.strip() and str.rstrip()
Strip(s) == RStripSet(LStripSet(s, Whitespace), Whitespace)
RStrip(s) == RStripSet(s, Whitespace)

\* a de-duplication that was forgotten
DedupeOff(xs) == xs

\* list(dict.fromkeys(xs)): first occurrences, in order
RECURSIVE Dedupe(_)
Dedupe(xs) ==
    IF xs = <<>> THEN <<>>
    ELSE LET rest == Dedupe(SubSeq(xs, 1, Len(xs) - 1))
             x == xs[Len(xs)]
         IN IF \E i \in 1..Len(rest) : rest[i] = x THEN rest ELSE Append(rest, x)

NoDup(s) == \A i, j \in 1..Len(s) : s[i] = s[j] => i = j

\* -------------------------------------------------------------- URL helpers
\* index of the last atom of the regex match https?://[^\s)>\]]+ that starts
\* at the scheme atom before position i
RECURSIVE UrlEnd(_, _)
UrlEnd(text, i) ==
    IF i + 1 <= Len(text) /\ text[i + 1] \notin UrlStop THEN UrlEnd(text, i + 1) ELSE i

RECURSIVE FindUrls(_, _)
FindUrls(text, i) ==
    IF i > Len(text) THEN <<>>
    ELSE IF text[i] \in Schemes /\ i + 1 <= Len(text) /\ text[i + 1] \notin UrlStop
         THEN LET j == UrlEnd(text, i + 1)
              IN <<SubSeq(text, i, j)>> \o FindUrls(text, j + 1)
         ELSE FindUrls(text, i + 1)

extract_urls(text) ==
    LET raw == FindUrls(text, 1)
        cleaned == [k \in 1..Len(raw) |-> RStripSet(raw[k], TrailPunct)]
    IN Dedupe(cleaned)

\* urlparse(url).netloc: what follows the scheme up to the first "/", "?" or "#"
RECURSIVE UpTo(_, _)
UpTo(s, set) ==
    IF s = <<>> \/ Head(s) \in set THEN <<>> ELSE <<Head(s)>> \o UpTo(Tail(s), set)

Netloc(url) ==
    IF url # <<>> /\ Head(url) \in Schemes THEN UpTo(Tail(url), {"/", "?", "#"}) ELSE <<>>

host_of(url) ==
    LET host == Lower(Strip(Netloc(url)))
        nowww == IF StartsWith(host, <<"www", ".">>) THEN SubSeq(host, 3, Len(host)) ELSE host
    IN LStripSet(nowww, {"."})

is_owned(host, brand_host) ==
    IF host = <<>> \/ brand_host = <<>> THEN FALSE
    ELSE IF host = brand_host THEN TRUE
    ELSE EndsWith(host, <<".">> \o brand_host)

\* a partition that keeps repeated URLs
partition_owned_keeps_repeats(urls, brand_site_url) ==
    LET brand_host == host_of(brand_site_url)
        IsO(u) == is_owned(host_of(u), brand_host)
        IsE(u) == ~is_owned(host_of(u), brand_host)
    IN [owned |-> SelectSeq(urls, IsO), external |-> SelectSeq(urls, IsE)]

partition_owned(urls, brand_site_url) ==
    LET brand_host == host_of(brand_site_url)
        IsO(u) == is_owned(host_of(u), brand_host)
        IsE(u) == ~is_owned(host_of(u), brand_host)
    IN [owned |-> Dedupe(SelectSeq(urls, IsO)), external |-> Dedupe(SelectSeq(urls, IsE))]

\* ------------------------------------------------------------------ texts
make_human_answer(brand, url, question) ==
    <<"Here is a quick answer about", " ">> \o brand \o <<".", "\n", "\n">>
    \o <<"For details, see the official site:", " ">> \o url \o <<"\n">>
    \o <<"You might also compare third-party perspectives at", " ",
         "https://", "example", ".", "org", "/", "review", ".", "\n">>

\* re.findall(r"\b" + brand + r"\b", text): one entry per whole-word occurrence
extract_mentions(text, brand) ==
    IF brand = <<>> THEN <<>>
    ELSE LET n == Len(brand)
             At(i) == /\ SubSeq(text, i, i + n - 1) = brand
                      /\ (i = 1 \/ text[i - 1] \in NonWord)
                      /\ (i + n > Len(text) \/ text[i + n] \in NonWord)
             hits == SelectSeq([i \in 1..Len(text) |-> i], At)
         IN [k \in 1..Len(hits) |-> brand]

RECURSIVE JoinLines(_)
JoinLines(lines) ==
    IF lines = <<>> THEN <<>>
    ELSE IF Len(lines) = 1 THEN lines[1]
    ELSE lines[1] \o <<"\n">> \o JoinLines(Tail(lines))

build_context(snippets) ==
    JoinLines([k \in 1..Len(snippets) |->
        <<"-", " ">> \o snippets[k].url \o <<"\n", " ", " ">> \o snippets[k].snip])

\* a post-condition step that never appends
must_link_skipped(a, text) == text

\* args.must_link_site and args.url and args.url not in human_text
must_link(a, text) ==
    IF a.must_link_site /\ a.url # <<>> /\ ~Contains(text, a.url)
    THEN RStrip(text) \o <<"\n", "\n", "For details, see", " ">> \o a.url \o <<"\n">>
    ELSE text

\* ------------------------------------------------------------------ inputs
BrandUrl == <<"https://", "acme", ".", "com">>
UAbout == <<"https://", "www", ".", "acme", ".", "com", "/", "about">>
UShop == <<"https://", "shop", ".", "acme", ".", "com">>
UNews == <<"https://", "news", ".", "example", "/", "review">>
ResultUrls == {UAbout, UShop, UNews}

\* what ddg_search can return: at most MaxResults distinct http(s) URLs (the
\* source caps the list at 10 and de-duplicates it), or it raises
ResultLists ==
    {r \in UNION {[1..k -> ResultUrls] : k \in 0..MaxResults} : NoDup(r)}
SearchOutcomes ==
    {[ok |-> FALSE, urls |-> <<>>]} \cup {[ok |-> TRUE, urls |-> r] : r \in ResultLists}

\* what fetch_snippet can do: raise, return "", return a non-empty snippet
FetchOutcomes ==
    {[ok |-> FALSE, text |-> <<>>], [ok |-> TRUE, text |-> <<>>],
     [ok |-> TRUE, text |-> <<"TITLE:", " ", "Acme">>]}

\* content fields of a 200 reply
PlainAnswer == <<" ", "Acme", " ", "sells widgets", ".", "\n">>
CitingAnswer ==
    <<"See", " ", "https://", "acme", ".", "com", "/", "about", ",", " ", "and", " ",
      "(", "https://", "news", ".", "example", "/", "review", ")", ".">>
Bodies ==
    {[tag |-> "badjson", text |-> <<>>], [tag |-> "missing", text |-> <<>>],
     [tag |-> "notstr", text |-> <<>>]}
    \cup {[tag |-> "str", text |-> t] : t \in {<<>>, <<" ", "\n">>, PlainAnswer, CitingAnswer}}
Statuses == {200, 404, 429, 501, 503}
\* a reply of requests.post, or the exception it raises (timeout, connection)
Responses ==
    {[kind |-> "neterr", status |-> 0, body |-> [tag |-> "badjson", text |-> <<>>]]}
    \cup {[kind |-> "http", status |-> s, body |-> [tag |-> "badjson", text |-> <<>>]] :
            s \in Statuses \ {200}}
    \cup {[kind |-> "http", status |-> 200, body |-> b] : b \in Bodies}
NoResponse == [kind |-> "none", status |-> 0, body |-> [tag |-> "badjson", text |-> <<>>]]

\* the options main's control flow reads; --timeout, --snippet-chars,
\* --compact-prompt, --search-query and --debug only shape the requests
Args ==
    [brand : {<<"Acme">>}, url : {<<>>, BrandUrl}, question : {<<"What do you sell?">>},
     ground : {0, 1}, max_searches : -1..MaxSearches, max_sources : -1..MaxSources,
     use_model : {0, 1}, provider : {"ollama", "openai"}, retries : -1..MaxRetries,
     must_link_site : BOOLEAN, model : {"gpt-4o"}, ollama_model : {"llama3.2"}]

\* no call of partition_owned on its own is under way
NoUnit ==
    [stage |-> "none", urls |-> <<>>, site |-> <<>>,
     first |-> [owned |-> <<>>, external |-> <<>>],
     second |-> [owned |-> <<>>, external |-> <<>>]]

\* ------------------------------------------------------------------- state
VARIABLES
    args,           \* parse_args(): the Question Request, fixed for the run
    api_key,        \* whether the environment holds OPENAI_API_KEY
    pc,             \* position of main()
    exc,            \* the exception that left main(), "none" while there is none
    results,        \* main's results
    chosen_bound,   \* whether main's local `chosen` has been assigned
    chosen,         \* main's chosen
    idx,            \* position of the running `for u in chosen` loop
    pairs,          \* main's pairs
    searches_used, sources_used, context_text, context_urls,
    search_calls,   \* ddg_search calls issued so far
    fetch_calls,    \* fetch_snippet calls issued so far
    gen_calls,      \* provider calls (call_ollama_answer / call_model_answer) made
    gen_context,    \* the context argument of the provider call
    attempt,        \* the provider call's attempt
    post_calls,     \* requests.post calls sent by the provider call
    resp,           \* the provider call's last resp
    sleeps,         \* time.sleep delays of the provider call, in ms, without jitter
    gen_exc,        \* the exception the provider call raised, "none" if none
    gen_return,     \* the provider call's return value
    human_text, model_name,
    stdout,         \* the payloads emitted
    unit            \* a call of partition_owned on its own: arguments and results

vars ==
    <<args, api_key, pc, exc, results, chosen_bound, chosen, idx, pairs, searches_used,
      sources_used, context_text, context_urls, search_calls, fetch_calls, gen_calls,
      gen_context, attempt, post_calls, resp, sleeps, gen_exc, gen_return, human_text,
      model_name, stdout, unit>>

\* lines 321-324 after parse_args()
Init ==
    /\ args \in Args
    \* the key is read by call_model_answer alone: other runs start without it
    /\ api_key \in IF args.use_model # 0 /\ args.provider = "openai" THEN BOOLEAN ELSE {FALSE}
    /\ pc = "start"
    /\ exc = "none"
    /\ results = <<>>
    /\ chosen_bound = FALSE
    /\ chosen = <<>>
    /\ idx = 1
    /\ pairs = <<>>
    /\ searches_used = 0
    /\ sources_used = 0
    /\ context_text = <<>>
    /\ context_urls = <<>>
    /\ search_calls = 0
    /\ fetch_calls = 0
    /\ gen_calls = 0
    /\ gen_context = <<>>
    /\ attempt = 0
    /\ post_calls = 0
    /\ resp = NoResponse
    /\ sleeps = <<>>
    /\ gen_exc = "none"
    /\ gen_return = <<>>
    /\ human_text = <<>>
    /\ model_name = <<>>
    /\ stdout = <<>>
    /\ unit = NoUnit

\* the guard of both grounding blocks
Grounding(a) == a.ground # 0 /\ a.max_searches > 0 /\ a.max_sources > 0

\* a slice that forgets the cap
TruncateOff(s, n) == s

\* Python's s[:n]
Truncate(s, n) ==
    IF n >= 0 THEN SubSeq(s, 1, Min(n, Len(s))) ELSE SubSeq(s, 1, Max(0, Len(s) + n))

\* a selection that keeps the results in the order of the search
OwnedFirstInSearchOrder(res, url) == Dedupe(res)

\* owned_first + external_next of the selection loop
OwnedFirst(res, url) ==
    LET brand_host == host_of(url)
        seen == Dedupe(res)
        IsO(u) == is_owned(host_of(u), brand_host)
        IsE(u) == ~is_owned(host_of(u), brand_host)
    IN SelectSeq(seen, IsO) \o SelectSeq(seen, IsE)

\* the value main gives `chosen`
SelectChosen(res, a) ==
    IF res # <<>> THEN Truncate(OwnedFirst(res, a.url), a.max_sources)
    ELSE IF a.max_sources > 0 /\ a.url # <<>> THEN <<a.url>>
    ELSE <<>>

\* a count that charges the search whatever it returned
CountSearchAlways(res) == 1

\* searches_used = 1 if results else 0
CountSearch(res) == IF res # <<>> THEN 1 ELSE 0

\* ----------------------------------------------------------------- actions
Start ==
    /\ pc = "start"
    /\ pc' = IF Grounding(args) THEN "search1" ELSE "fetch1"
    /\ UNCHANGED <<args, unit, api_key, exc, results, chosen_bound, chosen, idx, pairs,
                   searches_used, sources_used, context_text, context_urls, search_calls,
                   fetch_calls, gen_calls, gen_context, attempt, post_calls, resp, sleeps,
                   gen_exc, gen_return, human_text, model_name, stdout>>

\* first grounding block: ddg_search is not inside any try
Search1 ==
    /\ pc = "search1"
    /\ \E out \in SearchOutcomes :
         /\ search_calls' = search_calls + 1
         /\ IF out.ok
            THEN /\ results' = out.urls
                 /\ searches_used' = CountSearch(out.urls)
                 /\ pc' = "search2"
                 /\ exc' = exc
            ELSE /\ pc' = "raised"
                 /\ exc' = "search"
                 /\ UNCHANGED <<results, searches_used>>
    /\ UNCHANGED <<args, unit, api_key, chosen_bound, chosen, idx, pairs, sources_used,
                   context_text, context_urls, fetch_calls, gen_calls, gen_context,
                   attempt, post_calls, resp, sleeps, gen_exc, gen_return, human_text,
                   model_name, stdout>>

\* second grounding block, up to the count of the search
Search2 ==
    /\ pc = "search2"
    /\ \E out \in SearchOutcomes :
         /\ search_calls' = search_calls + 1
         /\ IF out.ok
            THEN /\ results' = out.urls
                 /\ searches_used' = CountSearch(out.urls)
                 /\ pc' = "selecting"
                 /\ exc' = exc
            ELSE /\ pc' = "raised"
                 /\ exc' = "search"
                 /\ UNCHANGED <<results, searches_used>>
    /\ UNCHANGED <<args, unit, api_key, chosen_bound, chosen, idx, pairs, sources_used,
                   context_text, context_urls, fetch_calls, gen_calls, gen_context,
                   attempt, post_calls, resp, sleeps, gen_exc, gen_return, human_text,
                   model_name, stdout>>

\* source selection, owned first, or the brand site when there is no result
Select ==
    /\ pc = "selecting"
    /\ chosen' = SelectChosen(results, args)
    /\ chosen_bound' = TRUE
    /\ pc' = "fetch1"
    /\ UNCHANGED <<args, unit, api_key, exc, results, idx, pairs, searches_used, sources_used,
                   context_text, context_urls, search_calls, fetch_calls, gen_calls,
                   gen_context, attempt, post_calls, resp, sleeps, gen_exc, gen_return,
                   human_text, model_name, stdout>>

\* `for u in chosen` when no grounding block assigned chosen: UnboundLocalError
UnboundChosen ==
    /\ pc = "fetch1"
    /\ ~chosen_bound
    /\ pc' = "raised"
    /\ exc' = "unbound_chosen"
    /\ UNCHANGED <<args, unit, api_key, results, chosen_bound, chosen, idx, pairs, searches_used,
                   sources_used, context_text, context_urls, search_calls, fetch_calls,
                   gen_calls, gen_context, attempt, post_calls, resp, sleeps, gen_exc,
                   gen_return, human_text, model_name, stdout>>

\* one iteration of a fetch loop: a failed fetch and an empty snippet are skipped
FetchStep(out) ==
    /\ fetch_calls' = fetch_calls + 1
    /\ pairs' = IF out.ok /\ out.text # <<>>
                THEN Append(pairs, [url |-> chosen[idx], snip |-> out.text])
                ELSE pairs
    /\ idx' = idx + 1

PairUrls(ps) == [k \in 1..Len(ps) |-> ps[k].url]

Fetch1 ==
    /\ pc = "fetch1"
    /\ chosen_bound
    /\ idx <= Len(chosen)
    /\ \E out \in FetchOutcomes : FetchStep(out)
    /\ UNCHANGED <<args, unit, api_key, pc, exc, results, chosen_bound, chosen, searches_used,
                   sources_used, context_text, context_urls, search_calls, gen_calls,
                   gen_context, attempt, post_calls, resp, sleeps, gen_exc, gen_return,
                   human_text, model_name, stdout>>

\* after the first loop: the second loop runs only inside `if pairs:`
EndFetch1 ==
    /\ pc = "fetch1"
    /\ chosen_bound
    /\ idx > Len(chosen)
    /\ context_urls' = PairUrls(pairs)
    /\ sources_used' = Len(pairs)
    /\ IF pairs # <<>>
       THEN /\ context_text' = build_context(pairs)
            /\ pairs' = <<>>
            /\ idx' = 1
            /\ pc' = "fetch2"
       ELSE /\ pc' = "generate"
            /\ UNCHANGED <<context_text, pairs, idx>>
    /\ UNCHANGED <<args, unit, api_key, exc, results, chosen_bound, chosen, searches_used,
                   search_calls, fetch_calls, gen_calls, gen_context, attempt, post_calls,
                   resp, sleeps, gen_exc, gen_return, human_text, model_name, stdout>>

Fetch2 ==
    /\ pc = "fetch2"
    /\ idx <= Len(chosen)
    /\ \E out \in FetchOutcomes : FetchStep(out)
    /\ UNCHANGED <<args, unit, api_key, pc, exc, results, chosen_bound, chosen, searches_used,
                   sources_used, context_text, context_urls, search_calls, gen_calls,
                   gen_context, attempt, post_calls, resp, sleeps, gen_exc, gen_return,
                   human_text, model_name, stdout>>

EndFetch2 ==
    /\ pc = "fetch2"
    /\ idx > Len(chosen)
    /\ context_urls' = PairUrls(pairs)
    /\ sources_used' = Len(pairs)
    /\ context_text' = IF pairs # <<>> THEN build_context(pairs) ELSE context_text
    /\ pc' = "generate"
    /\ UNCHANGED <<args, unit, api_key, exc, results, chosen_bound, chosen, idx, pairs,
                   searches_used, search_calls, fetch_calls, gen_calls, gen_context,
                   attempt, post_calls, resp, sleeps, gen_exc, gen_return, human_text,
                   model_name, stdout>>

\* ---------------------------------------------------------- provider calls
BaseMs == 500
CapMs == 2000
\* a backoff that keeps doubling
BackoffUncapped(k) == BaseMs * 2 ^ (k - 1)

\* min(2.0, 0.5 * 2 ** (attempt - 1)) seconds, in ms; random.random() * 0.1
\* seconds of jitter come on top and are not recorded
Backoff(k) == Min(CapMs, BaseMs * 2 ^ (k - 1))

RetryStatusOpenAI == {429, 500, 502, 503, 504}
RetryStatusOllama == {500, 502, 503, 504}
\* resp.raise_for_status() raises on 4xx and 5xx
RaisesForStatus(st) == 400 <= st /\ st < 600

\* a content check that returns whatever string the reply holds
ParseContentUnchecked(body, provider) ==
    IF body.tag = "str" THEN [exc |-> "none", ret |-> body.text]
    ELSE [exc |-> "json", ret |-> <<>>]

\* resp.json() and the content field: data["choices"][0]["message"]["content"]
\* raises when the field is missing, data.get("response", "") reads it as ""
ParseContent(body, provider) ==
    CASE body.tag = "badjson" -> [exc |-> "json", ret |-> <<>>]
      [] body.tag = "missing" ->
            IF provider = "openai" THEN [exc |-> "key", ret |-> <<>>]
            ELSE [exc |-> "empty", ret |-> <<>>]
      [] body.tag = "notstr" -> [exc |-> "empty", ret |-> <<>>]
      [] OTHER ->
            IF Strip(body.text) = <<>> THEN [exc |-> "empty", ret |-> <<>>]
            ELSE [exc |-> "none", ret |-> Strip(body.text)]

\* a loop that gives up one attempt late: attempt > max(0, retries) + 1
PostStepOneMore(r, retry_status, provider, pc_sleep) ==
    /\ attempt' = attempt + 1
    /\ post_calls' = post_calls + 1
    /\ resp' = r
    /\ IF r.kind = "neterr"
       THEN /\ gen_exc' = "network"
            /\ pc' = "gen_except"
            /\ UNCHANGED gen_return
       ELSE IF r.status \in retry_status
       THEN IF attempt + 1 > Max(0, args.retries) + 1
            THEN /\ gen_exc' = "http"
                 /\ pc' = "gen_except"
                 /\ UNCHANGED gen_return
            ELSE /\ pc' = pc_sleep
                 /\ UNCHANGED <<gen_exc, gen_return>>
       ELSE IF RaisesForStatus(r.status)
       THEN /\ gen_exc' = "http"
            /\ pc' = "gen_except"
            /\ UNCHANGED gen_return
       ELSE LET c == ParseContent(r.body, provider)
            IN /\ gen_exc' = c.exc
               /\ gen_return' = c.ret
               /\ pc' = IF c.exc = "none" THEN "gen_ok" ELSE "gen_except"

\* one pass of the `while True` loop of a provider call, on reply r
PostStep(r, retry_status, provider, pc_sleep) ==
    /\ attempt' = attempt + 1
    /\ post_calls' = post_calls + 1
    /\ resp' = r
    /\ IF r.kind = "neterr"
       THEN /\ gen_exc' = "network"
            /\ pc' = "gen_except"
            /\ UNCHANGED gen_return
       ELSE IF r.status \in retry_status
       THEN IF attempt + 1 > Max(0, args.retries) /\ RaisesForStatus(r.status)
            THEN /\ gen_exc' = "http"
                 /\ pc' = "gen_except"
                 /\ UNCHANGED gen_return
            ELSE /\ pc' = pc_sleep
                 /\ UNCHANGED <<gen_exc, gen_return>>
       ELSE IF RaisesForStatus(r.status)
       THEN /\ gen_exc' = "http"
            /\ pc' = "gen_except"
            /\ UNCHANGED gen_return
       ELSE LET c == ParseContent(r.body, provider)
            IN /\ gen_exc' = c.exc
               /\ gen_return' = c.ret
               /\ pc' = IF c.exc = "none" THEN "gen_ok" ELSE "gen_except"

\* `else` branch of `if args.use_model`
NoModel ==
    /\ pc = "generate"
    /\ args.use_model = 0
    /\ human_text' = make_human_answer(args.brand, args.url, args.question)
    /\ model_name' = <<"placeholder">>
    /\ pc' = "post"
    /\ UNCHANGED <<args, unit, api_key, exc, results, chosen_bound, chosen, idx, pairs,
                   searches_used, sources_used, context_text, context_urls, search_calls,
                   fetch_calls, gen_calls, gen_context, attempt, post_calls, resp, sleeps,
                   gen_exc, gen_return, stdout>>

CallOllama ==
    /\ pc = "generate"
    /\ args.use_model # 0
    /\ args.provider = "ollama"
    /\ gen_calls' = gen_calls + 1
    /\ gen_context' = context_text
    /\ attempt' = 0
    /\ pc' = "ollama_post"
    /\ UNCHANGED <<args, unit, api_key, exc, results, chosen_bound, chosen, idx, pairs,
                   searches_used, sources_used, context_text, context_urls, search_calls,
                   fetch_calls, post_calls, resp, sleeps, gen_exc, gen_return, human_text,
                   model_name, stdout>>

\* call_model_answer up to `attempt = 0`: raises at once without the key
CallOpenAI ==
    /\ pc = "generate"
    /\ args.use_model # 0
    /\ args.provider # "ollama"
    /\ gen_calls' = gen_calls + 1
    /\ gen_context' = context_text
    /\ attempt' = 0
    /\ IF api_key
       THEN /\ pc' = "openai_post"
            /\ UNCHANGED gen_exc
       ELSE /\ pc' = "gen_except"
            /\ gen_exc' = "missing_key"
    /\ UNCHANGED <<args, unit, api_key, exc, results, chosen_bound, chosen, idx, pairs,
                   searches_used, sources_used, context_text, context_urls, search_calls,
                   fetch_calls, post_calls, resp, sleeps, gen_return, human_text,
                   model_name, stdout>>

OpenAIPost ==
    /\ pc = "openai_post"
    /\ \E r \in Responses : PostStep(r, RetryStatusOpenAI, "openai", "openai_sleep")
    /\ UNCHANGED <<args, unit, api_key, exc, results, chosen_bound, chosen, idx, pairs,
                   searches_used, sources_used, context_text, context_urls, search_calls,
                   fetch_calls, gen_calls, gen_context, sleeps, human_text, model_name,
                   stdout>>

OpenAISleep ==
    /\ pc = "openai_sleep"
    /\ sleeps' = Append(sleeps, Backoff(attempt))
    /\ pc' = "openai_post"
    /\ UNCHANGED <<args, unit, api_key, exc, results, chosen_bound, chosen, idx, pairs,
                   searches_used, sources_used, context_text, context_urls, search_calls,
                   fetch_calls, gen_calls, gen_context, attempt, post_calls, resp, gen_exc,
                   gen_return, human_text, model_name, stdout>>

OllamaPost ==
    /\ pc = "ollama_post"
    /\ \E r \in Responses : PostStep(r, RetryStatusOllama, "ollama", "ollama_sleep")
    /\ UNCHANGED <<args, unit, api_key, exc, results, chosen_bound, chosen, idx, pairs,
                   searches_used, sources_used, context_text, context_urls, search_calls,
                   fetch_calls, gen_calls, gen_context, sleeps, human_text, model_name,
                   stdout>>

OllamaSleep ==
    /\ pc = "ollama_sleep"
    /\ sleeps' = Append(sleeps, Backoff(attempt))
    /\ pc' = "ollama_post"
    /\ UNCHANGED <<args, unit, api_key, exc, results, chosen_bound, chosen, idx, pairs,
                   searches_used, sources_used, context_text, context_urls, search_calls,
                   fetch_calls, gen_calls, gen_context, attempt, post_calls, resp, gen_exc,
                   gen_return, human_text, model_name, stdout>>

\* model_name after a provider call that returned
ProviderModelName(a) ==
    IF a.provider = "ollama" THEN <<"ollama:", a.ollama_model>> ELSE <<a.model>>

\* a fallback that keeps the provider's own model name
FallbackModelNameKept(a) ==
    IF a.provider = "ollama" THEN <<"ollama:", a.ollama_model>> ELSE <<a.model>>

\* f"{args.provider} (fallback: placeholder)"
FallbackModelName(a) ==
    <<a.provider, " ", "(", "fallback", ":", " ", "placeholder", ")">>

GenOk ==
    /\ pc = "gen_ok"
    /\ human_text' = gen_return
    /\ model_name' = ProviderModelName(args)
    /\ pc' = "post"
    /\ UNCHANGED <<args, unit, api_key, exc, results, chosen_bound, chosen, idx, pairs,
                   searches_used, sources_used, context_text, context_urls, search_calls,
                   fetch_calls, gen_calls, gen_context, attempt, post_calls, resp, sleeps,
                   gen_exc, gen_return, stdout>>

\* an except clause that calls the provider once more
GenExceptCallsAgain ==
    /\ pc = "gen_except"
    /\ pc' = "generate"
    /\ gen_exc' = "none"
    /\ UNCHANGED <<args, unit, api_key, exc, results, chosen_bound, chosen, idx, pairs,
                   searches_used, sources_used, context_text, context_urls, search_calls,
                   fetch_calls, gen_calls, gen_context, attempt, post_calls, resp, sleeps,
                   gen_return, human_text, model_name, stdout>>

\* `except Exception` around the provider call
GenExcept ==
    /\ pc = "gen_except"
    /\ human_text' = make_human_answer(args.brand, args.url, args.question)
    /\ model_name' = FallbackModelName(args)
    /\ pc' = "post"
    /\ UNCHANGED <<args, unit, api_key, exc, results, chosen_bound, chosen, idx, pairs,
                   searches_used, sources_used, context_text, context_urls, search_calls,
                   fetch_calls, gen_calls, gen_context, attempt, post_calls, resp, sleeps,
                   gen_exc, gen_return, stdout>>

\* the payload main assembles from its locals, text being the final human_text
Payload(text) ==
    LET citations == extract_urls(text)
        used_urls == Dedupe(citations \o context_urls)
        part == partition_owned(used_urls, args.url)
    IN [human_response_markdown |-> text,
        citations |-> citations,
        mentions |-> extract_mentions(text, args.brand),
        owned_sources |-> part.owned,
        sources |-> part.external,
        model |-> model_name,
        max_searches |-> args.max_searches,
        max_sources |-> args.max_sources,
        searches |-> searches_used,
        sources_included |-> sources_used]

\* must-link-site, citation accounting and the emission of the payload (the
\* payload goes to stdout; the file of --output is not modelled)
PostProcess ==
    /\ pc = "post"
    /\ human_text' = must_link(args, human_text)
    /\ stdout' = Append(stdout, Payload(must_link(args, human_text)))
    /\ pc' = "done"
    /\ UNCHANGED <<args, unit, api_key, exc, results, chosen_bound, chosen, idx, pairs,
                   searches_used, sources_used, context_text, context_urls, search_calls,
                   fetch_calls, gen_calls, gen_context, attempt, post_calls, resp, sleeps,
                   gen_exc, gen_return, model_name>>

Next ==
    \/ Start
    \/ Search1
    \/ Search2
    \/ Select
    \/ UnboundChosen
    \/ Fetch1
    \/ EndFetch1
    \/ Fetch2
    \/ EndFetch2
    \/ NoModel
    \/ CallOllama
    \/ CallOpenAI
    \/ OpenAIPost
    \/ OpenAISleep
    \/ OllamaPost
    \/ OllamaSleep
    \/ GenOk
    \/ GenExcept
    \/ PostProcess

Spec == Init /\ [][Next]_vars

\* ------------------------------------------------------------------ claims
Terminal == pc \in {"done", "raised"}
Emitted == pc = "done" /\ Len(stdout) = 1
Placeholder == make_human_answer(args.brand, args.url, args.question)

\* C1: whatever the search, the fetches and the provider call do, main ends
\* by emitting one payload and no exception leaves it.
C1_MainNeverRaises ==
    /\ pc # "raised"
    /\ exc = "none"
    /\ (pc = "done" => Len(stdout) = 1)

\* C2: without grounding (not requested, or a budget that is not positive) a
\* run makes no search call and no fetch, hands the provider an empty context
\* and ends with a payload whose usage counters are 0; with model use off the
\* text is non-empty and the model is "placeholder".
C2_NoGroundingCompletes ==
    ~Grounding(args) =>
        /\ search_calls = 0
        /\ fetch_calls = 0
        /\ gen_context = <<>>
        /\ (Terminal => Emitted)
        /\ (Emitted =>
              /\ stdout[1].searches = 0
              /\ stdout[1].sources_included = 0
              /\ (args.use_model = 0 =>
                    /\ stdout[1].human_response_markdown # <<>>
                    /\ stdout[1].model = <<"placeholder">>))

\* C3: a grounded run issues exactly one search call, never more than
\* max_searches.
C3_ExactlyOneSearch ==
    Grounding(args) =>
        /\ search_calls <= 1
        /\ search_calls <= args.max_searches
        /\ (pc \notin {"start", "search1", "raised"} => search_calls = 1)

\* C4: every emitted payload has sources_included <= max_sources,
\* searches <= max_searches and searches <= 1.
C4_BudgetInvariant ==
    \A i \in 1..Len(stdout) :
        /\ stdout[i].sources_included <= stdout[i].max_sources
        /\ stdout[i].searches <= stdout[i].max_searches
        /\ stdout[i].searches <= 1

\* a payload of a run whose search returned more results than max_sources and
\* whose fetches filled the budget
C4_Witness ==
    /\ Emitted
    /\ Len(results) > args.max_sources
    /\ stdout[1].sources_included = args.max_sources
    /\ stdout[1].searches = 1

\* C5: a search call that fails with a network or HTTP error counts as no
\* result: searches stays 0, the brand site is the only candidate and the run
\* goes on to generation and a payload.
C5_FailedSearchIsNoResults ==
    exc = "search" =>
        /\ pc \in {"selecting", "fetch1", "fetch2", "generate", "post", "done"}
        /\ searches_used = 0
        /\ (chosen_bound /\ args.url # <<>> => chosen = <<args.url>>)

\* the search whose results main selects from (the second ddg_search call)
\* has returned, and returned nothing
SearchReturnedNothing ==
    /\ search_calls = 2
    /\ exc # "search"
    /\ results = <<>>

\* C6: when the search returns no result, searches is 0, the candidates are
\* the brand site alone (if it is non-empty), and the run still ends with a
\* payload: from there on nothing raises, the fetch loop finds its candidates
\* and the payload emitted is the only one.
C6_EmptySearchFallsBack ==
    SearchReturnedNothing =>
        /\ pc # "raised"
        /\ searches_used = 0
        /\ (chosen_bound /\ args.url # <<>> => chosen = <<args.url>>)
        /\ (chosen_bound /\ args.url = <<>> => chosen = <<>>)
        /\ (pc = "fetch1" => chosen_bound)
        /\ (pc = "done" => Len(stdout) = 1 /\ stdout[1].searches = 0)

C6_Witness ==
    /\ Emitted
    /\ SearchReturnedNothing
    /\ chosen = <<BrandUrl>>
    /\ fetch_calls > 0
    /\ stdout[1].searches = 0

\* C7: a provider call that fails, for whatever reason, is replaced by the
\* placeholder answer with model "<provider> (fallback: placeholder)"; every
\* emitted text is non-empty.
C7_FailureFallsBack ==
    /\ (gen_exc # "none" /\ pc \in {"post", "done"} =>
          /\ human_text = Placeholder
          /\ model_name = <<args.provider>> \o <<" ", "(", "fallback", ":", " ", "placeholder", ")">>)
    /\ (gen_exc # "none" /\ pc \notin {"post", "done"} => pc = "gen_except")
    /\ \A i \in 1..Len(stdout) :
          /\ stdout[i].human_response_markdown # <<>>
          /\ Strip(stdout[i].human_response_markdown) # <<>>
          /\ (gen_exc # "none" =>
                /\ stdout[i].human_response_markdown = Placeholder
                /\ stdout[i].model = <<args.provider, " ", "(", "fallback", ":", " ", "placeholder", ")">>)

\* a payload emitted after the retries of a provider call ran out
C7_Witness ==
    /\ Emitted
    /\ gen_exc = "http"
    /\ post_calls >= 2
    /\ stdout[1].human_response_markdown = Placeholder

\* a 429 or 5xx reply as the claims speak of it
Is5xx(st) == 500 <= st /\ st <= 599

\* C8: call_model_answer answers every 429 and every 5xx reply that comes
\* while fewer than `retries` retries were made by a backoff and another
\* request, and gives up with the HTTP error only when the retries are spent.
C8_RemoteRetries429And5xx ==
    (args.provider = "openai" /\ resp.kind = "http"
        /\ (resp.status = 429 \/ Is5xx(resp.status))) =>
        IF attempt <= args.retries
        THEN pc \in {"openai_sleep", "openai_post"}
        ELSE gen_exc = "http" /\ pc \in {"gen_except", "post", "done"}

\* C9: call_ollama_answer retries every 5xx reply like the remote backend and
\* never retries a 429: the first 429 fails the call, no request follows.
C9_LocalRetries5xxOnly ==
    (args.provider = "ollama" /\ resp.kind = "http") =>
        /\ (Is5xx(resp.status) =>
              IF attempt <= args.retries
              THEN pc \in {"ollama_sleep", "ollama_post"}
              ELSE gen_exc = "http" /\ pc \in {"gen_except", "post", "done"})
        /\ (resp.status = 429 =>
              /\ gen_exc = "http"
              /\ pc \in {"gen_except", "post", "done"}
              /\ Len(sleeps) = attempt - 1)

\* C10: remote backend, model use on, no key in the environment: the provider
\* call sends no request and sleeps for no backoff, and the run ends with the
\* placeholder text and a model that contains "fallback".
C10_MissingKeyFallsBack ==
    (args.provider = "openai" /\ args.use_model # 0 /\ ~api_key) =>
        /\ post_calls = 0
        /\ sleeps = <<>>
        /\ (Terminal =>
              /\ Emitted
              /\ stdout[1].human_response_markdown = Placeholder
              /\ Contains(stdout[1].model, <<"fallback">>))

\* position of x in the duplicate-free list s
IndexOf(s, x) == CHOOSE i \in 1..Len(s) : s[i] = x
InSeq(s, x) == \E i \in 1..Len(s) : s[i] = x
\* a result that belongs to the brand, by the host of args.url
BrandOwned(u) == is_owned(host_of(u), host_of(args.url))

\* C11: when the search returned results, the list the fetch loops walk
\* (chosen, assigned once, by the selection) holds the owned results in
\* search order, then the external ones in search order, cut to max_sources:
\* it has min(max_sources, number of results) entries, all of them results,
\* owned before external, each class in search order, and a result left out
\* is never preferable to one taken (no owned left out while an external is
\* in, none left out that precedes a taken one of its class).
C11_OwnedFirstSelection ==
    (pc \in {"fetch1", "fetch2"} /\ chosen_bound /\ results # <<>>) =>
        /\ Len(chosen) = Min(args.max_sources, Len(results))
        /\ NoDup(chosen)
        /\ \A i \in 1..Len(chosen) : InSeq(results, chosen[i])
        /\ \A i, j \in 1..Len(chosen) :
              i < j =>
                /\ (BrandOwned(chosen[j]) => BrandOwned(chosen[i]))
                /\ (BrandOwned(chosen[i]) = BrandOwned(chosen[j]) =>
                      IndexOf(results, chosen[i]) < IndexOf(results, chosen[j]))
        /\ \A k \in 1..Len(results) :
              ~InSeq(chosen, results[k]) =>
                \A i \in 1..Len(chosen) :
                    /\ (BrandOwned(results[k]) => BrandOwned(chosen[i]))
                    /\ (BrandOwned(results[k]) = BrandOwned(chosen[i]) =>
                          IndexOf(results, chosen[i]) < k)

\* the search put an external result first and the budget of one source went
\* to the owned result behind it
C11_Witness ==
    /\ pc = "fetch2"
    /\ results = <<UNews, UAbout>>
    /\ args.max_sources = 1
    /\ chosen = <<UAbout>>
    /\ fetch_calls > 0

\* C12: a run fetches each selected candidate exactly once, so it never
\* issues more than max_sources snippet fetches.
C12_OneFetchPerCandidate ==
    chosen_bound =>
        /\ fetch_calls <= Len(chosen)
        /\ fetch_calls <= args.max_sources
        /\ (pc \in {"generate", "post", "done"} => fetch_calls = Len(chosen))

SeqSet(s) == {s[i] : i \in 1..Len(s)}
\* index of the first occurrence of x in s
FirstIdx(s, x) == CHOOSE i \in 1..Len(s) : s[i] = x /\ \A j \in 1..(i - 1) : s[j] # x
\* s is duplicate-free and lists its elements in the order they first occur in src
FirstSeenOrder(s, src) ==
    /\ NoDup(s)
    /\ \A i \in 1..Len(s) : InSeq(src, s[i])
    /\ \A i, j \in 1..Len(s) : i < j => FirstIdx(src, s[i]) < FirstIdx(src, s[j])
\* the URL tokens of a text in reading order, trailing punctuation removed
UrlTokens(text) ==
    LET raw == FindUrls(text, 1)
    IN [k \in 1..Len(raw) |-> RStripSet(raw[k], TrailPunct)]

\* C13: in every emitted payload owned_sources and sources are disjoint,
\* citations, owned_sources and sources are duplicate-free and in first-seen
\* order (citations in the order of the text, the other two in the order of
\* citations followed by context_urls), and owned_sources with sources hold
\* exactly the URLs of citations and context_urls, the owned ones in
\* owned_sources, the others in sources.
C13_SourcesPartition ==
    \A p \in 1..Len(stdout) :
        LET pay == stdout[p]
            used == pay.citations \o context_urls
        IN /\ SeqSet(pay.owned_sources) \cap SeqSet(pay.sources) = {}
           /\ FirstSeenOrder(pay.citations, UrlTokens(pay.human_response_markdown))
           /\ SeqSet(pay.citations) = SeqSet(UrlTokens(pay.human_response_markdown))
           /\ FirstSeenOrder(pay.owned_sources, used)
           /\ FirstSeenOrder(pay.sources, used)
           /\ SeqSet(pay.owned_sources) \cup SeqSet(pay.sources)
                = SeqSet(pay.citations) \cup SeqSet(context_urls)
           /\ \A u \in SeqSet(pay.owned_sources) : BrandOwned(u)
           /\ \A u \in SeqSet(pay.sources) : ~BrandOwned(u)

\* a payload whose text cites a URL that also gave context, next to an owned
\* context URL that the text does not cite
C13_Witness ==
    /\ Emitted
    /\ InSeq(stdout[1].citations, UNews)
    /\ InSeq(context_urls, UNews)
    /\ InSeq(context_urls, UAbout)
    /\ InSeq(stdout[1].owned_sources, UAbout)
    /\ InSeq(stdout[1].sources, UNews)

\* C14: the post-condition step (the step that leaves pc = "post") yields a
\* text that contains the brand site URL when must-link-site is set and the
\* URL is non-empty, whether the text came from the model or the placeholder;
\* it leaves the text as it was when the option is off or the text already
\* contained the URL; the payload carries that text.
C14_MustLinkSite ==
    [][pc = "post" =>
          /\ (args.must_link_site /\ args.url # <<>> => Contains(human_text', args.url))
          /\ (~args.must_link_site \/ Contains(human_text, args.url) =>
                human_text' = human_text)
          /\ Len(stdout') = 1
          /\ stdout'[1].human_response_markdown = human_text']_vars

\* a model answer without the brand URL that left with the URL appended
C14_Witness ==
    /\ Emitted
    /\ args.must_link_site
    /\ args.url = BrandUrl
    /\ gen_exc = "none"
    /\ gen_calls = 1
    /\ ~Contains(gen_return, BrandUrl)
    /\ Contains(stdout[1].human_response_markdown, BrandUrl)
    /\ stdout[1].human_response_markdown # gen_return

\* C15: the external calls of a run come in order: a search call happens
\* before the selection and before any fetch or provider call, the selection
\* before any fetch, a fetch after the selection and before the provider
\* call; once the provider call has started no search or fetch follows, and
\* the provider is called at most once.
C15_CallOrder ==
    [][/\ (search_calls' > search_calls =>
             ~chosen_bound /\ fetch_calls = 0 /\ gen_calls = 0 /\ post_calls = 0)
       /\ (chosen_bound' /\ ~chosen_bound =>
             /\ search_calls >= 1 /\ search_calls' = search_calls
             /\ fetch_calls = 0 /\ fetch_calls' = 0 /\ gen_calls = 0)
       /\ (fetch_calls' > fetch_calls =>
             chosen_bound /\ gen_calls = 0 /\ gen_calls' = 0 /\ post_calls = 0)
       /\ (gen_calls >= 1 \/ pc \in {"generate", "post", "done"} =>
             search_calls' = search_calls /\ fetch_calls' = fetch_calls /\ chosen' = chosen)
       /\ (post_calls' > post_calls => gen_calls = 1)
       /\ gen_calls' <= 1]_vars

\* a run that searched, selected, fetched and called the provider
C15_Witness ==
    /\ Emitted
    /\ search_calls >= 1
    /\ Len(chosen) >= 2
    /\ fetch_calls >= 2
    /\ gen_calls = 1
    /\ post_calls >= 1

\* ------------------------------------------------- partition_owned by itself
\* longest URL list handed to partition_owned
MaxUrls == 3

UNotAcme == <<"https://", "notacme", ".", "com", "/">>
UUpper == <<"https://", "WWW", ".", "Acme", ".", "com", "/", "x">>
UNoScheme == <<"acme", ".", "com">>
PartitionUrls == {BrandUrl, UAbout, UShop, UNews, UNotAcme, UUpper, UNoScheme}
PartitionSites == {<<>>, BrandUrl, UUpper, UNoScheme}
\* URL lists of partition_owned's callers: any order, duplicates allowed
PartitionLists == UNION {[1..k -> PartitionUrls] : k \in 0..MaxUrls}

\* parse_args' defaults, for a state in which main is not running
DefaultArgs ==
    [brand |-> <<"Acme">>, url |-> BrandUrl, question |-> <<"What do you sell?">>,
     ground |-> 0, max_searches |-> 0, max_sources |-> 0, use_model |-> 0,
     provider |-> "ollama", retries |-> 2, must_link_site |-> FALSE,
     model |-> "gpt-4o", ollama_model |-> "llama3.2"]

\* main's variables while a function is exercised on its own
MainIdle ==
    /\ exc = "none"
    /\ results = <<>>
    /\ chosen_bound = FALSE
    /\ chosen = <<>>
    /\ idx = 1
    /\ pairs = <<>>
    /\ searches_used = 0
    /\ sources_used = 0
    /\ context_text = <<>>
    /\ context_urls = <<>>
    /\ search_calls = 0
    /\ fetch_calls = 0
    /\ gen_calls = 0
    /\ gen_context = <<>>
    /\ attempt = 0
    /\ post_calls = 0
    /\ resp = NoResponse
    /\ sleeps = <<>>
    /\ gen_exc = "none"
    /\ gen_return = <<>>
    /\ human_text = <<>>
    /\ model_name = <<>>
    /\ stdout = <<>>

InitPartition ==
    /\ args = DefaultArgs
    /\ api_key = FALSE
    /\ MainIdle
    /\ pc = "unit"
    /\ \E urls \in PartitionLists, site \in PartitionSites :
         unit = [NoUnit EXCEPT !.stage = "input", !.urls = urls, !.site = site]

\* owned, external = partition_owned(urls, site)
PartitionOnce ==
    /\ unit.stage = "input"
    /\ unit' = [unit EXCEPT !.stage = "once", !.first = partition_owned(unit.urls, unit.site)]
    /\ UNCHANGED <<args, api_key, pc, exc, results, chosen_bound, chosen, idx, pairs,
                   searches_used, sources_used, context_text, context_urls, search_calls,
                   fetch_calls, gen_calls, gen_context, attempt, post_calls, resp, sleeps,
                   gen_exc, gen_return, human_text, model_name, stdout>>

\* partition_owned(owned + external, site)
PartitionAgain ==
    /\ unit.stage = "once"
    /\ unit' = [unit EXCEPT !.stage = "twice",
                  !.second = partition_owned(unit.first.owned \o unit.first.external, unit.site)]
    /\ UNCHANGED <<args, api_key, pc, exc, results, chosen_bound, chosen, idx, pairs,
                   searches_used, sources_used, context_text, context_urls, search_calls,
                   fetch_calls, gen_calls, gen_context, attempt, post_calls, resp, sleeps,
                   gen_exc, gen_return, human_text, model_name, stdout>>

NextPartition ==
    \/ PartitionOnce
    \/ PartitionAgain

SpecPartition == InitPartition /\ [][NextPartition]_vars

\* C16: partition_owned is a total, stable partition: every input URL is in
\* exactly one of owned and external, each output is duplicate-free and keeps
\* the order in which its URLs first occur in the input, and partitioning
\* owned ++ external again gives the same pair.
C16_TotalStablePartition ==
    /\ (unit.stage \in {"once", "twice"} =>
          /\ SeqSet(unit.first.owned) \cup SeqSet(unit.first.external) = SeqSet(unit.urls)
          /\ SeqSet(unit.first.owned) \cap SeqSet(unit.first.external) = {}
          /\ FirstSeenOrder(unit.first.owned, unit.urls)
          /\ FirstSeenOrder(unit.first.external, unit.urls))
    /\ (unit.stage = "twice" => unit.second = unit.first)

\* a list with a repeated owned URL around an external one, partitioned twice
C16_Witness ==
    /\ unit.stage = "twice"
    /\ unit.site = BrandUrl
    /\ unit.urls = <<UShop, UNotAcme, UShop>>
    /\ unit.first = [owned |-> <<UShop>>, external |-> <<UNotAcme>>]

\* C17: when fetching ends, the context block handed to generation is built
\* from exactly the counted pairs: sources_used is their number,
\* context_urls their URLs in selection order, every counted snippet is
\* non-empty, and the context is non-empty only if sources_used > 0.
C17_ContextFromCountedPairs ==
    (pc = "generate" /\ chosen_bound) =>
        /\ sources_used = Len(pairs)
        /\ context_urls = PairUrls(pairs)
        /\ \A k \in 1..Len(pairs) : pairs[k].snip # <<>>
        /\ context_text = (IF pairs = <<>> THEN <<>> ELSE build_context(pairs))
        /\ (context_text # <<>> => sources_used > 0)

\* ------------------------------------------------- one provider call by itself
\* largest --retries tried on a provider call
MaxCallRetries == 4

\* main at `if args.use_model:` with --use-model 1, any provider, any retries
InitCall ==
    /\ \E p \in {"ollama", "openai"}, n \in -1..MaxCallRetries :
         args = [DefaultArgs EXCEPT !.use_model = 1, !.provider = p, !.retries = n]
    /\ api_key \in (IF args.provider = "openai" THEN BOOLEAN ELSE {FALSE})
    /\ MainIdle
    /\ pc = "generate"
    /\ unit = NoUnit

NextCall ==
    \/ CallOllama
    \/ CallOpenAI
    \/ OpenAIPost
    \/ OpenAISleep
    \/ OllamaPost
    \/ OllamaSleep
    \/ GenOk
    \/ GenExcept

SpecCall == InitCall /\ [][NextCall]_vars

\* requests.post has a timeout and time.sleep is finite: the call keeps stepping
FairSpecCall == SpecCall /\ WF_vars(NextCall)

RetryStatusOf(provider) ==
    IF provider = "ollama" THEN RetryStatusOllama ELSE RetryStatusOpenAI

\* C18: for every reply sequence and every retries (0 and negative included)
\* a provider call ends, returning text or raising, after at most
\* max(0, retries) + 1 requests, and sends no request after a success or a
\* status that is not retried.
C18_BoundedRequests ==
    /\ [](post_calls <= Max(0, args.retries) + 1)
    /\ [][post_calls' # post_calls =>
            /\ post_calls' = post_calls + 1
            /\ post_calls > 0 =>
                 /\ resp.kind = "http"
                 /\ resp.status \in RetryStatusOf(args.provider)]_vars
    /\ <>(pc = "post" /\ (gen_exc = "none" <=> human_text = gen_return))

\* --retries -1: one request, a retried status, and the call raises
C18_Witness ==
    /\ args.retries = -1
    /\ post_calls = 1
    /\ resp.status = 503
    /\ pc = "gen_except"
    /\ gen_exc = "http"

AllWhitespace(t) == \A i \in 1..Len(t) : t[i] \in Whitespace

\* C19: a provider call never returns empty or whitespace-only text: a 200
\* reply whose content is empty, blank, missing or not a string makes the
\* call raise without another request, and a returned text is trimmed and
\* non-empty.
C19_NeverReturnsBlank ==
    /\ (pc = "gen_ok" =>
          /\ gen_return # <<>>
          /\ ~AllWhitespace(gen_return)
          /\ gen_return[1] \notin Whitespace
          /\ gen_return[Len(gen_return)] \notin Whitespace
          /\ gen_exc = "none")
    /\ ((/\ resp.kind = "http"
         /\ resp.status = 200
         /\ \/ resp.body.tag \in {"missing", "notstr"}
            \/ resp.body.tag = "str" /\ AllWhitespace(resp.body.text))
        => /\ pc \in {"gen_except", "post"}
           /\ gen_exc \in {"empty", "key"}
           /\ gen_return = <<>>)

\* a blank 200 reply on the first request, retries left, and the call raised
C19_Witness ==
    /\ pc = "gen_except"
    /\ args.retries >= 1
    /\ post_calls = 1
    /\ resp.status = 200
    /\ resp.body = [tag |-> "str", text |-> <<" ", "\n">>]
    /\ gen_exc = "empty"

\* C20: without jitter the sleep before the k-th retry is
\* min(2000 ms, 500 ms * 2^(k-1)), that is 500, 1000, 2000, 2000, ...:
\* non-decreasing, at most 2000, the same in both backends, and no sleep
\* follows the last failed attempt.
C20_BackoffSchedule ==
    /\ \A k \in 1..Len(sleeps) :
         /\ sleeps[k] = (CASE k = 1 -> 500 [] k = 2 -> 1000 [] OTHER -> 2000)
         /\ sleeps[k] <= 2000
         /\ (k > 1 => sleeps[k - 1] <= sleeps[k])
    /\ (pc \in {"openai_post", "ollama_post"} => Len(sleeps) = post_calls)
    /\ (pc \in {"openai_sleep", "ollama_sleep", "gen_ok"} => Len(sleeps) = post_calls - 1)
    /\ (pc = "gen_except" /\ post_calls > 0 => Len(sleeps) = post_calls - 1)

\* four retries on the local backend, all answered 503: the fifth reply raises
C20_Witness ==
    /\ args.provider = "ollama"
    /\ pc = "gen_except"
    /\ post_calls = 5
    /\ sleeps = <<500, 1000, 2000, 2000>>

====
